---- MODULE Spec2Model ----
(***************************************************************************)
(* Model of the Axiom metadata generator (scripts/axiom-meta-generator.py) *)
(* and of the synchronisation engine (scripts/axiom-sync.py).              *)
(*                                                                         *)
(* A path is a record [dirs, name]: dirs is the sequence of directory      *)
(* segments below the project root, name is the file name cut into tokens  *)
(* (<<"test", "_util", ".py">> is test_util.py), so that the string tests  *)
(* of the classifier (prefix, suffix, substring, exact name) are computed  *)
(* on the tokens.  A file's content is one of two texts; Absent stands for *)
(* "no such file".                                                         *)
(***************************************************************************)
EXTENDS Integers, Sequences, FiniteSets, TLC

\* ------------------------------------------------------------------ bounds
MaxClock == 2       \* operations of the engine in one behaviour
MaxEdits == 2       \* changes the environment makes in one behaviour

\* ------------------------------------------------------------- file system
Absent == "absent"

\* The texts a file may hold.
Contents == {"import os", "import os, sys # v2"}

P_main == [dirs |-> <<>>, name |-> <<"main", ".py">>]
P_test == [dirs |-> <<>>, name |-> <<"test", "_util", ".py">>]
P_notes == [dirs |-> <<>>, name |-> <<"notes", ".txt">>]

\* The files of the project the behaviours are explored on: an entry point,
\* a test file and a file the tracking predicate rejects.
Paths == {P_main, P_test, P_notes}

\* Parts of the resolved project root (AxiomSync.__init__ resolves it).
project_root == <<"/", "home", "proj">>

\* A fixed enumeration order for directory walks (os.walk, rglob).
RECURSIVE SeqOfSet(_)
SeqOfSet(S) ==
    IF S = {} THEN <<>>
    ELSE LET x == CHOOSE y \in S : TRUE IN <<x>> \o SeqOfSet(S \ {x})

RECURSIVE SumSeq(_)
SumSeq(s) == IF s = <<>> THEN 0 ELSE Head(s) + SumSeq(Tail(s))

SeqToSet(s) == {s[i] : i \in 1..Len(s)}

\* ---------------------------------------------------------------- pathlib
\* str.lower() on a token.
Lower(tok) ==
    CASE tok = "README" -> "readme"
      [] tok = "Test" -> "test"
      [] tok = "Dockerfile" -> "dockerfile"
      [] tok = "Makefile" -> "makefile"
      [] tok = "LICENSE" -> "license"
      [] OTHER -> tok

LowerName(name) == [i \in 1..Len(name) |-> Lower(name[i])]

ExtTokens == {".py", ".js", ".ts", ".tsx", ".jsx", ".java", ".cpp", ".c", ".go",
              ".rs", ".md", ".yml", ".yaml", ".json", ".toml", ".sh", ".sql",
              ".txt", ".contract"}

\* Path.suffix: the last dotted component of the name, "" when there is none
\* (a name that is only a leading-dot token has no suffix).
Suffix(p) ==
    LET n == p.name IN
    IF Len(n) >= 2 /\ n[Len(n)] \in ExtTokens /\ ~(Len(n) = 2 /\ n[1] = ".")
    THEN n[Len(n)] ELSE ""

\* Path.parts of the absolute path project_root / p, without the file name.
DirParts(p) == SeqToSet(project_root) \cup SeqToSet(p.dirs)

\* any(part in skip for part in file_path.parts): the directory parts, and
\* the file name when it is a single token.
AnyPartIn(p, skip) ==
    \/ \E part \in DirParts(p) : part \in skip
    \/ (Len(p.name) = 1 /\ p.name[1] \in skip)

\* Path.parent.name of the absolute path.
ParentName(p) ==
    IF p.dirs = <<>> THEN project_root[Len(project_root)]
    ELSE p.dirs[Len(p.dirs)]

\* -------------------------------------------------------------- classifier
file_types ==
    [s \in {".py", ".js", ".ts", ".tsx", ".jsx", ".java", ".cpp", ".c", ".go",
            ".rs", ".md", ".yml", ".yaml", ".json", ".toml", ".sh", ".sql"} |->
        CASE s = ".py" -> "python"
          [] s \in {".js", ".jsx"} -> "javascript"
          [] s \in {".ts", ".tsx"} -> "typescript"
          [] s = ".java" -> "java"
          [] s = ".cpp" -> "cpp"
          [] s = ".c" -> "c"
          [] s = ".go" -> "go"
          [] s = ".rs" -> "rust"
          [] s = ".md" -> "markdown"
          [] s \in {".yml", ".yaml"} -> "yaml"
          [] s = ".json" -> "json"
          [] s = ".toml" -> "toml"
          [] s = ".sh" -> "shell"
          [] OTHER -> "sql"]

\* Multipliers in thousandths (0.4 is 400).
token_multipliers ==
    [l \in {"python", "javascript", "typescript", "java", "cpp", "c", "go",
            "rust", "markdown", "yaml", "json", "shell", "sql"} |->
        CASE l = "python" -> 400
          [] l = "javascript" -> 300
          [] l = "typescript" -> 350
          [] l = "java" -> 450
          [] l = "cpp" -> 500
          [] l = "c" -> 500
          [] l = "go" -> 400
          [] l = "rust" -> 450
          [] l = "markdown" -> 250
          [] l = "yaml" -> 200
          [] l = "json" -> 150
          [] l = "shell" -> 300
          [] OTHER -> 350]

DefaultMultiplier == 300

skip_dirs == {"node_modules", "__pycache__", ".git", "build", "dist",
              "target", ".pytest_cache", ".axiom", "venv", "env"}

important_files == {<<"Dockerfile">>, <<"Makefile">>, <<"README", ".md">>, <<"LICENSE">>}

\* should_track_file with the listed names looked at before the skipped
\* directories.
should_track_file_ListedFirst(p) ==
    IF p.name[1] = "." THEN FALSE
    ELSE IF p.name \in important_files THEN TRUE
    ELSE IF AnyPartIn(p, skip_dirs) THEN FALSE
    ELSE Suffix(p) \in DOMAIN file_types

should_track_file(p) ==
    IF p.name[1] = "." THEN FALSE
    ELSE IF AnyPartIn(p, skip_dirs) THEN FALSE
    ELSE IF p.name \in important_files THEN TRUE
    ELSE Suffix(p) \in DOMAIN file_types

LanguageOf(p) == IF Suffix(p) \in DOMAIN file_types THEN file_types[Suffix(p)] ELSE "text"

\* 'test' in name: the lowered tokens that hold the substring.
TestTokens == {"test", "latest"}

ContainsTest(name) == \E i \in 1..Len(name) : name[i] \in TestTokens

\* determine_file_type with the configuration names looked at first.
determine_file_type_ConfigFirst(p) ==
    LET name == LowerName(p.name) IN
    IF name \in {<<"config", ".py">>, <<"settings", ".py">>,
                 <<"package", ".json">>, <<"requirements", ".txt">>} THEN "config"
    ELSE IF ContainsTest(name) \/ ParentName(p) = "tests" THEN "test"
    ELSE IF Suffix(p) \in {".py", ".js", ".ts", ".tsx", ".jsx"} THEN "module"
    ELSE IF Suffix(p) = ".md" THEN "doc"
    ELSE "script"

determine_file_type(p) ==
    LET name == LowerName(p.name) IN
    IF ContainsTest(name) \/ ParentName(p) = "tests" THEN "test"
    ELSE IF name \in {<<"config", ".py">>, <<"settings", ".py">>,
                      <<"package", ".json">>, <<"requirements", ".txt">>} THEN "config"
    ELSE IF Suffix(p) \in {".py", ".js", ".ts", ".tsx", ".jsx"} THEN "module"
    ELSE IF Suffix(p) = ".md" THEN "doc"
    ELSE "script"

\* determine_importance that takes a file of a tests directory for a test.
determine_importance_ParentAware(p) ==
    LET name == LowerName(p.name) IN
    IF ContainsTest(name) \/ ParentName(p) = "tests" THEN "test"
    ELSE IF name \in {<<"main", ".py">>, <<"index", ".js">>, <<"app", ".py">>,
                      <<"__init__", ".py">>} THEN "core"
    ELSE IF name \in {<<"config", ".py">>, <<"settings", ".py">>,
                      <<"package", ".json">>} THEN "core"
    ELSE "feature"

determine_importance(p) ==
    LET name == LowerName(p.name) IN
    IF name \in {<<"main", ".py">>, <<"index", ".js">>, <<"app", ".py">>,
                 <<"__init__", ".py">>} THEN "core"
    ELSE IF ContainsTest(name) THEN "test"
    ELSE IF name \in {<<"config", ".py">>, <<"settings", ".py">>,
                      <<"package", ".json">>} THEN "core"
    ELSE "feature"

\* ------------------------------------------------------------ world state
(***************************************************************************)
(* The persisted state is handled as one record w ("world"):               *)
(*   files      the project tree, path -> content or Absent                *)
(*   axiom_dir  TRUE when the .axiom directory exists                      *)
(*   meta       the metadata directory, storage key -> document            *)
(*   index      the index document .axiom/index.yml                        *)
(*   cache      the cache document .axiom/cache/sync_cache.yml             *)
(* A document is [kind |-> "absent"], [kind |-> "corrupt"] (it does not    *)
(* parse), [kind |-> "empty"] (a file cut to nothing: yaml.safe_load gives *)
(* None) or a parsed record with kind "doc".  An index that holds nothing  *)
(* but the meta_files update_sync_status put into an empty one has kind    *)
(* "partial".                                                              *)
(***************************************************************************)
NoDoc == [kind |-> "absent"]
CorruptDoc == [kind |-> "corrupt"]
EmptyDoc == [kind |-> "empty"]

Exists(w, p) == p \in DOMAIN w.files /\ w.files[p] # Absent

\* st_size of a content: its length in bytes.
SizeBytes(c) == IF c = "" THEN 0 ELSE IF c = "import os" THEN 9 ELSE 19

\* hashlib.sha256(content).hexdigest(): one digest per content.
Sha256(c) == <<"sha256", c>>

\* The value calculate_file_hash returns when the file cannot be read.
EmptyHash == <<>>

\* The imports the lexical scan finds in a content of a .py file
\* (re.findall of import\s+(\S+): "os," is what it takes from "import os, sys").
ImportsOf(c) == IF c = "" THEN <<>> ELSE IF c = "import os" THEN <<"os">> ELSE <<"os,">>

\* f"{relative_path}.yml": the storage key of the record of p.
MetaKey(p) == [dirs |-> p.dirs, name |-> Append(p.name, ".yml")]

\* str(relative_meta)[:-4]: the source path a storage key stands for.
StripYml(k) == [dirs |-> k.dirs, name |-> SubSeq(k.name, 1, Len(k.name) - 1)]

\* relative_path.with_suffix('.contract.yml')
ContractPath(p) ==
    [dirs |-> p.dirs,
     name |-> (IF Suffix(p) = "" THEN p.name ELSE SubSeq(p.name, 1, Len(p.name) - 1))
              \o <<".contract", ".yml">>]

\* estimate_tokens that answers -1 for a file it cannot stat.
estimate_tokens_MinusOneWhenMissing(w, p) ==
    IF ~Exists(w, p) THEN 0 - 1
    ELSE LET language == LanguageOf(p)
             multiplier == IF language \in DOMAIN token_multipliers
                           THEN token_multipliers[language] ELSE DefaultMultiplier
         IN (SizeBytes(w.files[p]) * multiplier) \div 1000

estimate_tokens(w, p) ==
    IF ~Exists(w, p) THEN 0
    ELSE LET language == LanguageOf(p)
             multiplier == IF language \in DOMAIN token_multipliers
                           THEN token_multipliers[language] ELSE DefaultMultiplier
         IN (SizeBytes(w.files[p]) * multiplier) \div 1000

analyze_file_relationships(w, p) ==
    IF Exists(w, p) /\ Suffix(p) = ".py" THEN ImportsOf(w.files[p]) ELSE <<>>

\* generate_file_meta for an existing file, at time t.
generate_file_meta(w, p, t) ==
    [kind |-> "doc",
     generated_at |-> t,
     last_updated |-> t,
     file_info |-> [path |-> p,
                    type |-> determine_file_type(p),
                    language |-> LanguageOf(p),
                    size_bytes |-> SizeBytes(w.files[p]),
                    estimated_tokens |-> estimate_tokens(w, p)],
     ai_summary |-> [importance |-> determine_importance(p),
                     reading_priority |-> IF determine_importance(p) = "core"
                                          THEN "important" ELSE "optional"],
     imports |-> analyze_file_relationships(w, p),
     contract_file |-> IF Exists(w, ContractPath(p))
                       THEN <<ContractPath(p)>> ELSE <<>>]

\* Adds or replaces one entry of a mapping (dict[key] = value, or a file
\* written into a directory).
Put(f, key, val) ==
    [x \in (DOMAIN f) \cup {key} |-> IF x = key THEN val ELSE f[x]]

\* Removes a set of entries of a mapping.
Drop(f, keys) == [x \in (DOMAIN f) \ keys |-> f[x]]

EmptyMap == [x \in {} |-> 0]

save_file_meta(w, p, meta) ==
    [w EXCEPT !.axiom_dir = TRUE, !.meta = Put(w.meta, MetaKey(p), meta)]

update_meta_for_file(w, p, t) ==
    IF should_track_file(p) /\ Exists(w, p)
    THEN save_file_meta(w, p, generate_file_meta(w, p, t))
    ELSE w

\* BucketOf with the type looked at before the importance.
BucketOf_TypeFirst(meta) ==
    IF meta.file_info.type = "test" THEN "test_files"
    ELSE IF meta.file_info.type = "config" THEN "config_files"
    ELSE IF meta.ai_summary.importance = "core" THEN "core_modules"
    ELSE "feature_modules"

\* The bucket generate_index puts a parsed record in.
BucketOf(meta) ==
    IF meta.ai_summary.importance = "core" THEN "core_modules"
    ELSE IF meta.file_info.type = "test" THEN "test_files"
    ELSE IF meta.file_info.type = "config" THEN "config_files"
    ELSE "feature_modules"

Buckets == {"core_modules", "feature_modules", "config_files", "test_files"}

\* ParsedRecords with the try around the whole loop: the walk ends at the
\* first record that does not parse.
ParsedRecords_AbortOnError(w) ==
    LET keys == SeqOfSet(DOMAIN w.meta)
        bad == {i \in 1..Len(keys) : w.meta[keys[i]].kind # "doc"}
        good == {i \in 1..Len(keys) : \A j \in bad : i < j}
    IN [i \in 1..Cardinality(good) |-> w.meta[keys[i]]]

\* The records rglob("*.yml") finds and yaml parses, in walk order.
ParsedRecords(w) ==
    LET keys == SeqOfSet({k \in DOMAIN w.meta : w.meta[k].kind = "doc"})
    IN [i \in 1..Len(keys) |-> w.meta[keys[i]]]

\* SelectBucket with independent ifs in place of the elif chain: a record
\* goes to every bucket one of its fields names.
SelectBucket_IndependentIfs(recs, b) ==
    SelectSeq(recs, LAMBDA m :
        \/ b = "core_modules" /\ m.ai_summary.importance = "core"
        \/ b = "test_files" /\ m.file_info.type = "test"
        \/ b = "config_files" /\ m.file_info.type = "config"
        \/ b = "feature_modules" /\ BucketOf(m) = b)

SelectBucket(recs, b) == SelectSeq(recs, LAMBDA m : BucketOf(m) = b)

\* BuildIndex counting the files rglob finds in place of the records read.
BuildIndex_CountsFiles(w, t) ==
    LET recs == ParsedRecords(w) IN
    [kind |-> "doc",
     generated_at |-> t,
     file_categories |->
        [b \in Buckets |->
            LET mine == SelectBucket(recs, b) IN
            [files |-> [i \in 1..Len(mine) |-> mine[i].file_info.path],
             estimated_tokens |->
                SumSeq([i \in 1..Len(mine) |-> mine[i].file_info.estimated_tokens])]],
     meta_files |-> [total_count |-> Cardinality(DOMAIN w.meta),
                     last_updated |-> t,
                     sync_status |-> "clean"]]

\* The index document generate_index builds at time t.
BuildIndex(w, t) ==
    LET recs == ParsedRecords(w) IN
    [kind |-> "doc",
     generated_at |-> t,
     file_categories |->
        [b \in Buckets |->
            LET mine == SelectBucket(recs, b) IN
            [files |-> [i \in 1..Len(mine) |-> mine[i].file_info.path],
             estimated_tokens |->
                SumSeq([i \in 1..Len(mine) |-> mine[i].file_info.estimated_tokens])]],
     meta_files |-> [total_count |-> Len(recs),
                     last_updated |-> t,
                     sync_status |-> "clean"]]

\* open(index_path, 'w') fails when the .axiom directory does not exist.
generate_index_raises(w) == ~w.axiom_dir

generate_index(w, t) ==
    IF generate_index_raises(w) THEN w
    ELSE [w EXCEPT !.index = BuildIndex(w, t)]

\* clean_orphaned_meta without the [:-4]: the record's own name is looked up
\* in the project tree.
clean_orphaned_meta_KeyNotStripped(w) ==
    [w EXCEPT !.meta = Drop(w.meta, {k \in DOMAIN w.meta : ~Exists(w, k)})]

\* clean_orphaned_meta that also removes a record it cannot read.
clean_orphaned_meta_DropsUnreadable(w) ==
    [w EXCEPT !.meta = Drop(w.meta, {k \in DOMAIN w.meta :
                                        \/ ~Exists(w, StripYml(k))
                                        \/ w.meta[k].kind # "doc"})]

clean_orphaned_meta(w) ==
    [w EXCEPT !.meta = Drop(w.meta, {k \in DOMAIN w.meta : ~Exists(w, StripYml(k))})]

init_axiom_structure(w, t) ==
    LET w1 == [w EXCEPT !.axiom_dir = TRUE] IN
    IF w1.index.kind = "absent" THEN generate_index(w1, t) ELSE w1

\* scan_and_generate_meta: every trackable file of the tree gets a record.
RECURSIVE UpdateAll(_, _, _)
UpdateAll(w, ps, t) ==
    IF ps = <<>> THEN w
    ELSE UpdateAll(save_file_meta(w, Head(ps), generate_file_meta(w, Head(ps), t)),
                   Tail(ps), t)

\* The trackable files os.walk meets.
Trackable(w) == {p \in DOMAIN w.files : Exists(w, p) /\ should_track_file(p)}

\* scan_and_generate_meta that leaves alone a file whose record file exists.
scan_and_generate_meta_NewOnly(w, t) ==
    UpdateAll(w, SeqOfSet({p \in Trackable(w) : MetaKey(p) \notin DOMAIN w.meta}), t)

scan_and_generate_meta(w, t) == UpdateAll(w, SeqOfSet(Trackable(w)), t)

\* ---- main() of the generator: one operator per command line flag.  raised
\* tells that the command ended with an uncaught exception.
\* trail holds the states after each write the command made to the index.
main_init(w, t) ==
    LET w1 == init_axiom_structure(w, t)
    IN [s |-> w1, raised |-> FALSE, trail |-> <<w1>>]

\* The record generate_file_meta builds for a file that is removed after its
\* stat() (line 172): the size is the one read, estimate_tokens and
\* analyze_file_relationships meet the missing file inside their try blocks.
generate_file_meta_gone(w, p, t) ==
    LET gone == [w EXCEPT !.files[p] = Absent]
    IN [generate_file_meta(w, p, t) EXCEPT
            !.file_info.estimated_tokens = estimate_tokens(gone, p),
            !.imports = analyze_file_relationships(gone, p)]

\* The loop of scan_and_generate_meta when the files of fault.failing are
\* removed by another process after os.walk has listed them: before the
\* stat() of generate_file_meta ("vanish": stat raises FileNotFoundError,
\* which nothing in the loop catches) or after it ("vanish_late").
RECURSIVE UpdateAllRacing(_, _, _, _)
UpdateAllRacing(w, ps, t, fault) ==
    IF ps = <<>> THEN [s |-> w, raised |-> FALSE]
    ELSE LET p == Head(ps)
             gone == [w EXCEPT !.files[p] = Absent]
         IN IF p \in fault.failing /\ fault.step = "vanish"
            THEN [s |-> gone, raised |-> TRUE]
            ELSE IF p \in fault.failing /\ fault.step = "vanish_late"
            THEN UpdateAllRacing(save_file_meta(gone, p, generate_file_meta_gone(w, p, t)),
                                 Tail(ps), t, fault)
            ELSE UpdateAllRacing(save_file_meta(w, p, generate_file_meta(w, p, t)),
                                 Tail(ps), t, fault)

main_scan(w, t, fault) ==
    LET w1 == init_axiom_structure(w, t)
        w2 == generate_index(scan_and_generate_meta(w1, t), t)
        r == UpdateAllRacing(w1, SeqOfSet(Trackable(w1)), t, fault)
    IN IF fault.step = "none"
       THEN [s |-> w2, raised |-> FALSE, trail |-> <<w1, w2>>]
       ELSE IF r.raised
       THEN [s |-> r.s, raised |-> TRUE, trail |-> <<w1>>]
       ELSE [s |-> generate_index(r.s, t), raised |-> FALSE,
             trail |-> <<w1, generate_index(r.s, t)>>]

\* The forms the path given to --update may have: under the resolved project
\* root, or relative to the working directory (taken to be the project root).
PathForms == {"absolute", "relative"}

\* generate_file_meta starts with file_path.relative_to(self.project_root):
\* pathlib raises ValueError when file_path is relative, the root being
\* resolved.  update_meta_for_file gets there for a trackable, existing file.
update_meta_for_file_raises(w, p, form) ==
    form = "relative" /\ should_track_file(p) /\ Exists(w, p)

main_update(w, p, form, t) ==
    IF update_meta_for_file_raises(w, p, form)
    THEN [s |-> w, raised |-> TRUE, trail |-> <<>>]
    ELSE
    LET w1 == update_meta_for_file(w, p, t)
        w2 == generate_index(w1, t)
    IN [s |-> w2, raised |-> generate_index_raises(w1), trail |-> <<w2>>]

main_clean(w, t) ==
    LET w1 == clean_orphaned_meta(w)
        w2 == generate_index(w1, t)
    IN [s |-> w2, raised |-> generate_index_raises(w1), trail |-> <<w2>>]

\* ------------------------------------------------------------ sync engine
(***************************************************************************)
(* The engine adds its in-memory fields to the record: file_hashes (the    *)
(* hash cache, path -> digest) and last_sync_time.  An operation that can  *)
(* fail takes a fault: the step of it that raises ("init": a mkdir of      *)
(* init_axiom_structure, "record": update_meta_for_file of the files in    *)
(* failing, "orphan": an unlink of clean_orphaned_meta, "index": the open  *)
(* of generate_index).  A step that raises has written nothing, and the    *)
(* steps after it work.  Two more steps stand for a KeyboardInterrupt that *)
(* arrives while the operation runs: "interrupt", after scan_for_changes   *)
(* has returned, and "interrupt_tokens", inside the try of estimate_tokens *)
(* while the record of a file in failing is built.                         *)
(***************************************************************************)
NoFault == [step |-> "none", failing |-> {}]

\* load_cache that, with no cache it can read, takes the hashes of the files
\* on disk.
load_cache_HashesTreeOnError(s) ==
    IF s.cache.kind = "doc"
    THEN [s EXCEPT !.file_hashes = s.cache.file_hashes,
                   !.last_sync_time = s.cache.last_sync_time]
    ELSE [s EXCEPT !.file_hashes =
                      [p \in {q \in DOMAIN s.files :
                                 Exists(s, q) /\ should_track_file(q)} |->
                          Sha256(s.files[p])]]

\* AxiomSync.load_cache, called by __init__ on an empty file_hashes.
load_cache(s) ==
    IF s.cache.kind = "doc"
    THEN [s EXCEPT !.file_hashes = s.cache.file_hashes,
                   !.last_sync_time = s.cache.last_sync_time]
    ELSE [s EXCEPT !.file_hashes = EmptyMap]

save_cache(s, t) ==
    [s EXCEPT !.axiom_dir = TRUE,
              !.cache = [kind |-> "doc",
                         file_hashes |-> s.file_hashes,
                         last_sync_time |-> s.last_sync_time,
                         generated_at |-> t]]

calculate_file_hash(s, p) ==
    IF Exists(s, p) THEN Sha256(s.files[p]) ELSE EmptyHash

\* scan_for_changes without the comparison of hashes: only files the cache
\* does not know are changed.
scan_for_changes_NewFilesOnly(s) ==
    LET changed_files == {p \in Trackable(s) : p \notin DOMAIN s.file_hashes}
        hashes1 ==
            [p \in (DOMAIN s.file_hashes) \cup changed_files |->
                IF p \in changed_files THEN calculate_file_hash(s, p)
                ELSE s.file_hashes[p]]
        deleted_files == (DOMAIN hashes1) \ Trackable(s)
    IN [changed_files |-> changed_files,
        deleted_files |-> deleted_files,
        returned |-> <<changed_files>>,
        s |-> [s EXCEPT !.file_hashes = Drop(hashes1, deleted_files)]]

\* scan_for_changes that writes the cache document when it has updated the
\* hashes.
scan_for_changes_SavesCache(s) ==
    LET changed_files ==
            {p \in Trackable(s) :
                \/ p \notin DOMAIN s.file_hashes
                \/ s.file_hashes[p] # calculate_file_hash(s, p)}
        hashes1 ==
            [p \in (DOMAIN s.file_hashes) \cup changed_files |->
                IF p \in changed_files THEN calculate_file_hash(s, p)
                ELSE s.file_hashes[p]]
        deleted_files == (DOMAIN hashes1) \ Trackable(s)
        hashes2 == Drop(hashes1, deleted_files)
    IN [changed_files |-> changed_files,
        deleted_files |-> deleted_files,
        returned |-> <<changed_files>>,
        s |-> [s EXCEPT !.file_hashes = hashes2,
                        !.axiom_dir = TRUE,
                        !.cache = [kind |-> "doc",
                                   file_hashes |-> hashes2,
                                   last_sync_time |-> s.last_sync_time,
                                   generated_at |-> s.last_sync_time]]]

\* scan_for_changes without its second walk: the entries of files that are
\* gone stay in the cache.
scan_for_changes_KeepsDeleted(s) ==
    LET changed_files ==
            {p \in Trackable(s) :
                \/ p \notin DOMAIN s.file_hashes
                \/ s.file_hashes[p] # calculate_file_hash(s, p)}
        hashes1 ==
            [p \in (DOMAIN s.file_hashes) \cup changed_files |->
                IF p \in changed_files THEN calculate_file_hash(s, p)
                ELSE s.file_hashes[p]]
    IN [changed_files |-> changed_files,
        deleted_files |-> {},
        returned |-> <<changed_files>>,
        s |-> [s EXCEPT !.file_hashes = hashes1]]

\* scan_for_changes that reports the changed files and does not store their
\* hashes.
scan_for_changes_ReportsOnly(s) ==
    LET changed_files ==
            {p \in Trackable(s) :
                \/ p \notin DOMAIN s.file_hashes
                \/ s.file_hashes[p] # calculate_file_hash(s, p)}
        deleted_files == (DOMAIN s.file_hashes) \ Trackable(s)
    IN [changed_files |-> changed_files,
        deleted_files |-> deleted_files,
        returned |-> <<changed_files>>,
        s |-> [s EXCEPT !.file_hashes = Drop(s.file_hashes, deleted_files)]]

\* scan_for_changes: returned is what the caller receives, deleted_files is
\* the local set of the second walk, s the state after the call.
scan_for_changes(s) ==
    LET changed_files ==
            {p \in Trackable(s) :
                \/ p \notin DOMAIN s.file_hashes
                \/ s.file_hashes[p] # calculate_file_hash(s, p)}
        hashes1 ==
            [p \in (DOMAIN s.file_hashes) \cup changed_files |->
                IF p \in changed_files THEN calculate_file_hash(s, p)
                ELSE s.file_hashes[p]]
        existing_files == Trackable(s)
        deleted_files == (DOMAIN hashes1) \ existing_files
    IN [changed_files |-> changed_files,
        deleted_files |-> deleted_files,
        returned |-> <<changed_files>>,
        s |-> [s EXCEPT !.file_hashes = Drop(hashes1, deleted_files)]]

\* sync_meta_for_file: ok is the boolean it returns.
sync_meta_for_file(s, p, t, fault) ==
    IF ~Exists(s, p) THEN [s |-> s, ok |-> FALSE]
    ELSE IF fault.step = "record" /\ p \in fault.failing THEN [s |-> s, ok |-> FALSE]
    ELSE IF fault.step = "interrupt_tokens" /\ p \in fault.failing /\ should_track_file(p)
    THEN \* the bare except of estimate_tokens takes the interrupt and returns 0
         [s |-> save_file_meta(s, p, [generate_file_meta(s, p, t)
                                        EXCEPT !.file_info.estimated_tokens = 0]),
          ok |-> TRUE]
    ELSE [s |-> update_meta_for_file(s, p, t), ok |-> TRUE]

\* The loop "for file_path in changed_files: if sync_meta_for_file(...)".
RECURSIVE SyncEach(_, _, _, _, _)
SyncEach(s, ps, t, fault, count) ==
    IF ps = <<>> THEN [s |-> s, success_count |-> count]
    ELSE LET r == sync_meta_for_file(s, Head(ps), t, fault)
         IN SyncEach(r.s, Tail(ps), t, fault, IF r.ok THEN count + 1 ELSE count)

update_sync_status(s, status, t) ==
    IF s.index.kind = "absent" THEN s
    ELSE IF s.index.kind = "corrupt" THEN s
    ELSE IF s.index.kind = "empty"
    THEN [s EXCEPT !.index = [kind |-> "partial",
                              meta_files |-> [sync_status |-> status,
                                              last_updated |-> t]]]
    ELSE [s EXCEPT !.index.meta_files.sync_status = status,
                   !.index.meta_files.last_updated = t]

\* The except branch when it also saves the cache before it re-raises.
SyncFailed_SavesCache(s, t, written) ==
    LET s1 == save_cache(update_sync_status(s, "error", t), t)
    IN [s |-> s1, raised |-> TRUE, trail |-> Append(written, s1)]

\* The except branch of full_sync and incremental_sync.  trail is, here and
\* in the operations below, the states after each of the steps of the
\* operation that write the index, in the order of the steps; written is the
\* trail up to the failure.
SyncFailed(s, t, written) ==
    LET s1 == update_sync_status(s, "error", t)
    IN [s |-> s1, raised |-> TRUE, trail |-> Append(written, s1)]

full_sync(s, t, fault) ==
    IF fault.step = "init" THEN [s |-> s, raised |-> TRUE, trail |-> <<>>]
    ELSE
    LET s0 == init_axiom_structure(s, t)
        s1 == update_sync_status(s0, "syncing", t)
        sc == scan_for_changes(s1)
        changed_files == sc.returned[1]
        s2 == IF changed_files = {} THEN sc.s
              ELSE SyncEach(sc.s, SeqOfSet(changed_files), t, fault, 0).s
    IN  IF fault.step = "orphan" THEN SyncFailed(s2, t, <<s0, s1>>)
        ELSE
        LET s3 == clean_orphaned_meta(s2)
        IN  IF fault.step = "index" \/ generate_index_raises(s3)
            THEN SyncFailed(s3, t, <<s0, s1>>)
            ELSE
            LET s4 == generate_index(s3, t)
                s5 == [s4 EXCEPT !.last_sync_time = t]
                s6 == update_sync_status(s5, "clean", t)
            IN  [s |-> save_cache(s6, t), raised |-> FALSE,
                 trail |-> <<s0, s1, s4, s6>>]

\* incremental_sync without the short cut: it does what full_sync does.
incremental_sync_NoShortCut(s, t, fault) == full_sync(s, t, fault)

\* incremental_sync that does not mark the index as syncing before it scans.
incremental_sync_NoSyncingMark(s, t, fault) ==
    LET sc == scan_for_changes(s)
        changed_files == sc.returned[1]
    IN  IF changed_files = {}
        THEN LET s2 == update_sync_status(sc.s, "clean", t)
             IN [s |-> s2, raised |-> FALSE, trail |-> <<s2>>]
        ELSE
        LET r == SyncEach(sc.s, SeqOfSet(changed_files), t, fault, 0)
        IN  IF r.success_count > 0
               /\ (fault.step = "index" \/ generate_index_raises(r.s))
            THEN SyncFailed(r.s, t, <<>>)
            ELSE
            LET s3 == IF r.success_count > 0 THEN generate_index(r.s, t) ELSE r.s
                s4 == [s3 EXCEPT !.last_sync_time = t]
                s5 == update_sync_status(s4, "clean", t)
            IN  [s |-> save_cache(s5, t), raised |-> FALSE, trail |-> <<s3, s5>>]

incremental_sync(s, t, fault) ==
    LET s1 == update_sync_status(s, "syncing", t)
        sc == scan_for_changes(s1)
        changed_files == sc.returned[1]
    IN  IF fault.step = "interrupt"
        THEN \* no except clause of incremental_sync takes a KeyboardInterrupt
             [s |-> sc.s, raised |-> TRUE, trail |-> <<s1>>]
        ELSE
        IF changed_files = {}
        THEN LET s2 == update_sync_status(sc.s, "clean", t)
             IN [s |-> s2, raised |-> FALSE, trail |-> <<s1, s2>>]
        ELSE
        LET r == SyncEach(sc.s, SeqOfSet(changed_files), t, fault, 0)
        IN  IF r.success_count > 0
               /\ (fault.step = "index" \/ generate_index_raises(r.s))
            THEN SyncFailed(r.s, t, <<s1>>)
            ELSE
            LET s3 == IF r.success_count > 0 THEN generate_index(r.s, t) ELSE r.s
                s4 == [s3 EXCEPT !.last_sync_time = t]
                s5 == update_sync_status(s4, "clean", t)
            IN  [s |-> save_cache(s5, t), raised |-> FALSE, trail |-> <<s1, s3, s5>>]

\* force_file_sync that rebuilds only when the cached hash is not current.
force_file_sync_HashChecked(s, p, t, fault) ==
    IF ~Exists(s, p) THEN [s |-> s, raised |-> FALSE, trail |-> <<>>]
    ELSE IF p \in DOMAIN s.file_hashes /\ s.file_hashes[p] = calculate_file_hash(s, p)
    THEN [s |-> s, raised |-> FALSE, trail |-> <<>>]
    ELSE
    LET s1 == [s EXCEPT !.file_hashes = Put(s.file_hashes, p, calculate_file_hash(s, p))]
        r == sync_meta_for_file(s1, p, t, fault)
    IN  IF ~r.ok THEN [s |-> r.s, raised |-> FALSE, trail |-> <<>>]
        ELSE IF fault.step = "index" \/ generate_index_raises(r.s)
        THEN [s |-> r.s, raised |-> TRUE, trail |-> <<>>]
        ELSE [s |-> save_cache(generate_index(r.s, t), t), raised |-> FALSE,
              trail |-> <<generate_index(r.s, t)>>]

\* force_file_sync has no try block: a failing index write reaches the caller.
force_file_sync(s, p, t, fault) ==
    IF ~Exists(s, p) THEN [s |-> s, raised |-> FALSE, trail |-> <<>>]
    ELSE
    LET s1 == [s EXCEPT !.file_hashes = Put(s.file_hashes, p, calculate_file_hash(s, p))]
        r == sync_meta_for_file(s1, p, t, fault)
    IN  IF ~r.ok THEN [s |-> r.s, raised |-> FALSE, trail |-> <<>>]
        ELSE IF fault.step = "index" \/ generate_index_raises(r.s)
        THEN [s |-> r.s, raised |-> TRUE, trail |-> <<>>]
        ELSE [s |-> save_cache(generate_index(r.s, t), t), raised |-> FALSE,
              trail |-> <<generate_index(r.s, t)>>]

\* check_sync_status that takes an index it cannot read for a missing one.
check_sync_status_UnreadableIsMissing(s) ==
    IF s.index.kind \in {"absent", "corrupt", "empty"} THEN "not_initialized"
    ELSE s.index.meta_files.sync_status

check_sync_status(s) ==
    IF s.index.kind = "absent" THEN "not_initialized"
    ELSE IF s.index.kind = "corrupt" THEN "error"
    ELSE IF s.index.kind = "empty" THEN "unknown"
    ELSE s.index.meta_files.sync_status

\* ------------------------------------------------------------ state machine
(***************************************************************************)
(* now is the clock: every operation of the engine or of the generator     *)
(* runs at the next instant, and datetime.now() inside it is that instant. *)
(* edits counts the changes the environment has made.  pc is the place of   *)
(* watch_mode: "idle" when it is not running, "sync" at the call of        *)
(* incremental_sync, "sleep" at time.sleep after it returned, "sleep_err"  *)
(* at time.sleep of the except branch, "stopped" once it has returned.     *)
(***************************************************************************)
VARIABLES files, axiom_dir, meta, index, cache, file_hashes, last_sync_time,
          now, edits, last, pc

vars == <<files, axiom_dir, meta, index, cache, file_hashes, last_sync_time,
          now, edits, last, pc>>

\* The current state as a record, and the step that installs a record.
Cur ==
    [files |-> files, axiom_dir |-> axiom_dir, meta |-> meta, index |-> index,
     cache |-> cache, file_hashes |-> file_hashes,
     last_sync_time |-> last_sync_time]

Becomes(s) ==
    /\ files' = s.files
    /\ axiom_dir' = s.axiom_dir
    /\ meta' = s.meta
    /\ index' = s.index
    /\ cache' = s.cache
    /\ file_hashes' = s.file_hashes
    /\ last_sync_time' = s.last_sync_time

\* The files whose record rebuild an injected fault makes fail.
FailingSets == {{p} : p \in {q \in Paths : should_track_file(q)}}

\* The faults an operation of the engine is run under.
Faults ==
    {[step |-> x, failing |-> {}] : x \in {"none", "init", "orphan", "index"}}
    \cup {[step |-> "record", failing |-> F] : F \in FailingSets}

\* What the last step was: the operation, its argument and fault, the state
\* it started from, whether it raised, and what it returned.
Env == [op |-> "env"]

Did(op, arg, fault, raised, ret) ==
    last' = [op |-> op, arg |-> arg, fault |-> fault, pre |-> Cur,
             raised |-> raised, ret |-> ret]

\* A project tree with no .axiom directory and a newly constructed engine.
Init ==
    /\ files \in [Paths -> {Absent} \cup Contents]
    /\ axiom_dir = FALSE
    /\ meta = EmptyMap
    /\ index = NoDoc
    /\ cache = NoDoc
    /\ file_hashes = EmptyMap
    /\ last_sync_time = 0
    /\ now = 0
    /\ edits = 0
    /\ last = Env
    /\ pc = "idle"

\* A project tree of trackable files only.
TrackedPaths == {p \in Paths : should_track_file(p)}

InitTracked == Init /\ \A p \in Paths \ TrackedPaths : files[p] = Absent

\* ---- the environment: the user edits the tree, a crash truncates a document
Edit ==
    /\ edits < MaxEdits
    /\ edits' = edits + 1
    /\ last' = Env
    /\ UNCHANGED <<now, pc>>

WriteFile(p, c) ==
    /\ Edit
    /\ files[p] # c
    /\ files' = [files EXCEPT ![p] = c]
    /\ UNCHANGED <<axiom_dir, meta, index, cache, file_hashes, last_sync_time>>

DeleteFile(p) ==
    /\ Edit
    /\ files[p] # Absent
    /\ files' = [files EXCEPT ![p] = Absent]
    /\ UNCHANGED <<axiom_dir, meta, index, cache, file_hashes, last_sync_time>>

CorruptMeta(k) ==
    /\ Edit
    /\ k \in DOMAIN meta
    /\ meta[k].kind = "doc"
    /\ meta' = [meta EXCEPT ![k] = CorruptDoc]
    /\ UNCHANGED <<files, axiom_dir, index, cache, file_hashes, last_sync_time>>

CorruptIndex ==
    /\ Edit
    /\ index.kind = "doc"
    /\ index' = CorruptDoc
    /\ UNCHANGED <<files, axiom_dir, meta, cache, file_hashes, last_sync_time>>

\* A crash between open(index_path, 'w') and the dump leaves the file empty.
TruncateIndex ==
    /\ Edit
    /\ index.kind \in {"doc", "partial"}
    /\ index' = EmptyDoc
    /\ UNCHANGED <<files, axiom_dir, meta, cache, file_hashes, last_sync_time>>

CorruptCache ==
    /\ Edit
    /\ cache.kind = "doc"
    /\ cache' = CorruptDoc
    /\ UNCHANGED <<files, axiom_dir, meta, index, file_hashes, last_sync_time>>

\* ---- the engine
Tick == now < MaxClock /\ now' = now + 1 /\ UNCHANGED <<edits, pc>>

\* A new process: AxiomSync.__init__ reads the persisted cache.
Restart ==
    /\ Becomes(load_cache([Cur EXCEPT !.file_hashes = EmptyMap,
                                      !.last_sync_time = now]))
    /\ last' = Env
    /\ UNCHANGED <<now, edits, pc>>

ScanForChanges ==
    /\ Tick
    /\ LET r == scan_for_changes(Cur) IN
        /\ Becomes(r.s)
        /\ Did("scan_for_changes", <<>>, NoFault, FALSE, r.returned)

FullSync(fault) ==
    /\ Tick
    /\ LET r == full_sync(Cur, now + 1, fault) IN
        /\ Becomes(r.s)
        /\ Did("full_sync", <<>>, fault, r.raised, <<>>)

IncrementalSync(fault) ==
    /\ Tick
    /\ fault.step \notin {"init", "orphan"}
    /\ LET r == incremental_sync(Cur, now + 1, fault) IN
        /\ Becomes(r.s)
        /\ Did("incremental_sync", <<>>, fault, r.raised, <<>>)

ForceFileSync(p, fault) ==
    /\ Tick
    /\ fault.step \in {"none", "index", "record"}
    /\ LET r == force_file_sync(Cur, p, now + 1, fault) IN
        /\ Becomes(r.s)
        /\ Did("force_file_sync", p, fault, r.raised, <<>>)

\* The environment's steps.
Environment ==
    \/ \E p \in Paths, c \in Contents : WriteFile(p, c)
    \/ \E p \in Paths : DeleteFile(p)
    \/ \E k \in DOMAIN meta : CorruptMeta(k)
    \/ CorruptIndex
    \/ CorruptCache

\* Spec: the engine's operations when no step of them fails.
Next ==
    \/ Environment
    \/ Restart
    \/ ScanForChanges
    \/ FullSync(NoFault)
    \/ IncrementalSync(NoFault)
    \/ \E p \in Paths : ForceFileSync(p, NoFault)

Spec == Init /\ [][Next]_vars

\* SpecFault: the same operations, each run under any of the faults.
NextFault ==
    \/ Environment
    \/ Restart
    \/ \E fault \in Faults : FullSync(fault)
    \/ \E fault \in Faults : IncrementalSync(fault)
    \/ \E p \in Paths, fault \in Faults : ForceFileSync(p, fault)

SpecFault == Init /\ [][NextFault]_vars

\* ---- the generator's command line
GenInit ==
    /\ Tick
    /\ LET r == main_init(Cur, now + 1) IN
        /\ Becomes(r.s)
        /\ Did("init", <<>>, NoFault, r.raised, <<>>)

GenScan(fault) ==
    /\ Tick
    /\ fault.step # "none" => (fault.failing # {} /\ fault.failing \subseteq Trackable(Cur))
    /\ LET r == main_scan(Cur, now + 1, fault) IN
        /\ Becomes(r.s)
        /\ Did("scan", <<>>, fault, r.raised, <<>>)

GenUpdate(p, form) ==
    /\ Tick
    /\ LET r == main_update(Cur, p, form, now + 1) IN
        /\ Becomes(r.s)
        /\ Did("update", [path |-> p, form |-> form], NoFault, r.raised, <<>>)

GenClean ==
    /\ Tick
    /\ LET r == main_clean(Cur, now + 1) IN
        /\ Becomes(r.s)
        /\ Did("clean", <<>>, NoFault, r.raised, <<>>)

\* SpecGen: the generator run from its command line on a tree the user edits.
NextGen ==
    \/ \E p \in Paths, c \in Contents : WriteFile(p, c)
    \/ \E p \in Paths : DeleteFile(p)
    \/ \E k \in DOMAIN meta : CorruptMeta(k)
    \/ CorruptIndex
    \/ GenInit
    \/ GenScan(NoFault)
    \/ \E p \in Paths, form \in PathForms : GenUpdate(p, form)
    \/ GenClean

SpecGen == Init /\ [][NextGen]_vars

\* ---- the generator on two small projects
P_app == [dirs |-> <<"src">>, name |-> <<"app", ".py">>]
P_config == [dirs |-> <<>>, name |-> <<"config", ".py">>]
P_requirements == [dirs |-> <<>>, name |-> <<"requirements", ".txt">>]
P_config_yml == [dirs |-> <<>>, name |-> <<"config", ".yml">>]

\* A module with the place of its contract document, and a project of
\* configuration files.
ProjectTrees == {{P_app, ContractPath(P_app)},
                 {P_config, P_requirements, P_config_yml}}

InitProject ==
    /\ \E T \in ProjectTrees : files \in [T -> {Absent} \cup Contents]
    /\ axiom_dir = FALSE
    /\ meta = EmptyMap
    /\ index = NoDoc
    /\ cache = NoDoc
    /\ file_hashes = EmptyMap
    /\ last_sync_time = 0
    /\ now = 0
    /\ edits = 0
    /\ last = Env
    /\ pc = "idle"

\* The races a scan is run under: one listed file removed by another process.
ScanFaults ==
    {NoFault} \cup {[step |-> x, failing |-> {p}] :
                        x \in {"vanish", "vanish_late"},
                        p \in UNION ProjectTrees}

\* SpecProject: scan-all and update-one on a project the user edits.
NextProject ==
    \/ \E p \in DOMAIN files, c \in Contents : WriteFile(p, c)
    \/ \E p \in DOMAIN files : DeleteFile(p)
    \/ \E fault \in ScanFaults : GenScan(fault)
    \/ \E p \in DOMAIN files, form \in PathForms : GenUpdate(p, form)

SpecProject == InitProject /\ [][NextProject]_vars

\* ---- the classifier and the token estimator on any path
\* File names that meet every rule of the classifier: hidden names, the
\* names should_track_file lists, entry points, names with the test marker,
\* configuration names, known and unknown extensions, a name that is also
\* the name of a skipped directory.
ClassifyNames ==
    {<<".", "hidden">>, <<".", "hidden", ".py">>,
     <<"Makefile">>, <<"Dockerfile">>, <<"LICENSE">>, <<"README", ".md">>,
     <<"main", ".py">>, <<"app", ".py">>, <<"index", ".js">>, <<"__init__", ".py">>,
     <<"test", "_util", ".py">>, <<"Test", "Helper", ".java">>, <<"latest", ".py">>,
     <<"config", ".py">>, <<"settings", ".py">>, <<"package", ".json">>,
     <<"requirements", ".txt">>, <<"config", ".yml">>,
     <<"utils", ".py">>, <<"view", ".tsx">>, <<"guide", ".md">>, <<"deploy", ".sh">>,
     <<"data", ".toml">>, <<"notes", ".txt">>, <<"build">>}

\* Directories below the project root: plain ones, a tests directory as the
\* parent and as a grandparent, a skipped one, a hidden one that is not
\* skipped.
ClassifyDirs ==
    {<<>>, <<"src">>, <<"tests">>, <<"tests", "unit">>, <<"node_modules">>,
     <<"src", "dist">>, <<".github">>}

ClassifyPaths == {[dirs |-> d, name |-> n] : d \in ClassifyDirs, n \in ClassifyNames}

\* A second file of the same directory and extension, hence of the same
\* language.
Sibling(p) ==
    [dirs |-> p.dirs,
     name |-> <<"other">> \o (IF Suffix(p) = "" THEN <<>> ELSE <<Suffix(p)>>)]

\* The texts of the files: the two of Contents and the empty file.
ClassifyContents == Contents \cup {""}

InitClassify ==
    /\ \E p \in ClassifyPaths :
          files \in [{p, Sibling(p)} -> {Absent} \cup ClassifyContents]
    /\ axiom_dir = FALSE
    /\ meta = EmptyMap
    /\ index = NoDoc
    /\ cache = NoDoc
    /\ file_hashes = EmptyMap
    /\ last_sync_time = 0
    /\ now = 0
    /\ edits = 0
    /\ last = Env
    /\ pc = "idle"

\* A call of one of the four functions: nothing is written.
Called(op, p, ret) ==
    /\ Did(op, p, NoFault, FALSE, ret)
    /\ UNCHANGED <<files, axiom_dir, meta, index, cache, file_hashes,
                   last_sync_time, now, edits, pc>>

ShouldTrackFile(p) == Called("should_track_file", p, should_track_file(p))

DetermineFileType(p) == Called("determine_file_type", p, determine_file_type(p))

DetermineImportance(p) == Called("determine_importance", p, determine_importance(p))

EstimateTokens(p) == Called("estimate_tokens", p, estimate_tokens(Cur, p))

NextClassify ==
    \/ \E p \in DOMAIN files : ShouldTrackFile(p)
    \/ \E p \in DOMAIN files : DetermineFileType(p)
    \/ \E p \in DOMAIN files : DetermineImportance(p)
    \/ \E p \in DOMAIN files : EstimateTokens(p)

SpecClassify == InitClassify /\ [][NextClassify]_vars

\* ---- the engine started anew on the cache a former process left
\* AxiomSync.__init__ as an operation that last keeps.
Start ==
    /\ Becomes(load_cache([Cur EXCEPT !.file_hashes = EmptyMap,
                                      !.last_sync_time = now]))
    /\ Did("__init__", <<>>, NoFault, FALSE, <<>>)
    /\ UNCHANGED <<now, edits, pc>>

\* SpecStart: syncs and scans of engines constructed one after the other, on
\* a tree of trackable files the user edits, with a cache that may get
\* damaged between two of them and syncs that may fail.
NextStart ==
    \/ \E p \in TrackedPaths, c \in Contents : WriteFile(p, c)
    \/ \E p \in TrackedPaths : DeleteFile(p)
    \/ CorruptCache
    \/ Start
    \/ ScanForChanges
    \/ \E fault \in Faults : FullSync(fault)
    \/ \E fault \in Faults : IncrementalSync(fault)

SpecStart == InitTracked /\ [][NextStart]_vars

\* ---- generate_index on any metadata directory
\* The importance and type values a record carries, and the record a storage
\* key holds for them; tokens is its file_info.estimated_tokens.
Importances == {"core", "feature", "test"}
RecordTypes == {"module", "test", "config"}

RecordFor(k, importance, type, tokens) ==
    [kind |-> "doc",
     generated_at |-> 0,
     last_updated |-> 0,
     file_info |-> [path |-> StripYml(k),
                    type |-> type,
                    language |-> LanguageOf(StripYml(k)),
                    size_bytes |-> 9,
                    estimated_tokens |-> tokens],
     ai_summary |-> [importance |-> importance,
                     reading_priority |-> IF importance = "core"
                                          THEN "important" ELSE "optional"],
     imports |-> <<>>,
     contract_file |-> <<>>]

\* The estimated_tokens of the record under key k.
TokensFor(k) ==
    IF StripYml(k) = P_main THEN 1 ELSE IF StripYml(k) = P_test THEN 2 ELSE 4

\* The documents a storage key can hold: a record that does not parse, or a
\* record of any importance and type.
DocumentsFor(k) ==
    {CorruptDoc} \cup {RecordFor(k, i, ty, TokensFor(k)) : i \in Importances,
                                                          ty \in RecordTypes}

\* A metadata directory holding any documents under any of the keys.
InitIndex ==
    /\ files = [p \in Paths |-> Absent]
    /\ axiom_dir = TRUE
    /\ \E K \in SUBSET {MetaKey(p) : p \in Paths} :
          meta \in {f \in [K -> UNION {DocumentsFor(k) : k \in K}] :
                        \A k \in K : f[k] \in DocumentsFor(k)}
    /\ index = NoDoc
    /\ cache = NoDoc
    /\ file_hashes = EmptyMap
    /\ last_sync_time = 0
    /\ now = 0
    /\ edits = 0
    /\ last = Env
    /\ pc = "idle"

GenerateIndex ==
    /\ Tick
    /\ ~generate_index_raises(Cur)
    /\ Becomes(generate_index(Cur, now + 1))
    /\ Did("generate_index", <<>>, NoFault, FALSE, <<>>)

\* SpecIndex: the index rebuilt over a metadata directory whose records a
\* crash may truncate.
NextIndex ==
    \/ \E k \in DOMAIN meta : CorruptMeta(k)
    \/ GenerateIndex

SpecIndex == InitIndex /\ [][NextIndex]_vars

\* ---- watch_mode
\* What one call of incremental_sync under a fault ended with.
Outcome(r, fault) ==
    IF r.raised /\ fault.step = "interrupt" THEN "interrupted"
    ELSE IF r.raised THEN "raised"
    ELSE "returned"

\* watch_after_sync without the except Exception branch: an exception of
\* incremental_sync ends the loop.
watch_after_sync_NoExceptBranch(outcome) ==
    IF outcome = "returned" THEN "sleep" ELSE "stopped"

\* Where the loop is after the call of incremental_sync: at the sleep that
\* follows it, out of the loop by the break of except KeyboardInterrupt, or
\* at the sleep of except Exception.
watch_after_sync(outcome) ==
    IF outcome = "returned" THEN "sleep"
    ELSE IF outcome = "interrupted" THEN "stopped"
    ELSE "sleep_err"

\* Where the loop is after a sleep: an interrupt during the sleep reaches the
\* inner except KeyboardInterrupt, or from the except branch the outer one.
watch_after_sleep(interrupted) == IF interrupted THEN "stopped" ELSE "sync"

\* The faults one iteration of the loop runs under.
WatchFaults ==
    {NoFault, [step |-> "index", failing |-> {}], [step |-> "interrupt", failing |-> {}]}
    \cup {[step |-> "interrupt_tokens", failing |-> F] : F \in FailingSets}

\* The clock of the watch loop: instants after MaxClock are not told apart.
WatchTime == IF now < MaxClock THEN now + 1 ELSE now

WatchStart ==
    /\ pc = "idle"
    /\ pc' = "sync"
    /\ last' = Env
    /\ UNCHANGED <<files, axiom_dir, meta, index, cache, file_hashes,
                   last_sync_time, now, edits>>

WatchSync(fault) ==
    /\ pc = "sync"
    \* estimate_tokens runs only for a file the scan reports
    /\ fault.step = "interrupt_tokens"
          => fault.failing \subseteq scan_for_changes(Cur).changed_files
    /\ now' = WatchTime
    /\ LET r == incremental_sync(Cur, WatchTime, fault) IN
        /\ Becomes(r.s)
        /\ pc' = watch_after_sync(Outcome(r, fault))
        /\ Did("watch_sync", <<>>, fault, r.raised, <<>>)
    /\ UNCHANGED edits

WatchSleep(interrupted) ==
    /\ pc \in {"sleep", "sleep_err"}
    /\ pc' = watch_after_sleep(interrupted)
    /\ Did("watch_sleep", pc, NoFault, FALSE, <<interrupted>>)
    /\ UNCHANGED <<files, axiom_dir, meta, index, cache, file_hashes,
                   last_sync_time, now, edits>>

WatchIteration == \E fault \in WatchFaults : WatchSync(fault)
WatchWake == WatchSleep(FALSE)
WatchCancel == WatchSleep(TRUE)

\* The call of incremental_sync comes to an end: the loop leaves line 249.
\* Among the steps of NextWatch these are the steps of WatchIteration.
WatchReturns == pc = "sync" /\ pc' \in {"sleep", "sleep_err", "stopped"}

\* SpecWatch: watch_mode on a tree of trackable files the user edits.
\* incremental_sync returns or raises (its loops run over finite sets), and
\* time.sleep(interval) ends: both steps are fair.
NextWatch ==
    \/ \E p \in TrackedPaths, c \in Contents : WriteFile(p, c)
    \/ \E p \in TrackedPaths : DeleteFile(p)
    \/ WatchStart
    \/ WatchIteration
    \/ WatchWake
    \/ WatchCancel

SpecWatch ==
    InitTracked /\ [][NextWatch]_vars /\ WF_pc(WatchReturns) /\ WF_vars(WatchWake)

\* ---- every operation that writes the index
\* SpecOps: the operations of the engine, each under any of the faults, the
\* commands of the generator and a lone index rebuild, on a tree of trackable
\* files the user edits.
NextOps ==
    \/ \E p \in TrackedPaths, c \in Contents : WriteFile(p, c)
    \/ \E p \in TrackedPaths : DeleteFile(p)
    \/ \E fault \in Faults : FullSync(fault)
    \/ \E fault \in Faults : IncrementalSync(fault)
    \/ \E p \in TrackedPaths, fault \in Faults : ForceFileSync(p, fault)
    \/ GenInit
    \/ GenScan(NoFault)
    \/ \E p \in TrackedPaths : GenUpdate(p, "absolute")
    \/ GenClean
    \/ GenerateIndex

SpecOps == InitTracked /\ [][NextOps]_vars

\* ---- the status command
\* main --status: check_sync_status reads the index and changes nothing.
CheckSyncStatus ==
    /\ Did("check_sync_status", <<>>, NoFault, FALSE, <<check_sync_status(Cur)>>)
    /\ UNCHANGED <<files, axiom_dir, meta, index, cache, file_hashes,
                   last_sync_time, now, edits, pc>>

\* The ways a sync ends that leave the statuses apart: it returns, its index
\* write raises, an interrupt ends it.
StatusFaults ==
    {NoFault, [step |-> "index", failing |-> {}], [step |-> "interrupt", failing |-> {}]}

\* SpecStatus: syncs that return, fail or are interrupted, an index that a
\* crash leaves unparseable or empty, and the status command.
NextStatus ==
    \/ \E p \in Paths, c \in Contents : WriteFile(p, c)
    \/ CorruptIndex
    \/ TruncateIndex
    \/ \E fault \in StatusFaults \ {[step |-> "interrupt", failing |-> {}]} :
          FullSync(fault)
    \/ \E fault \in StatusFaults : IncrementalSync(fault)
    \/ CheckSyncStatus

SpecStatus == Init /\ [][NextStatus]_vars

\* ------------------------------------------------------------------ claims
\* The state predicates below speak of the operation that ran last through
\* last: last.pre is the state it started from, the variables the state it
\* left.

Ran(op) == last.op = op /\ last.fault = NoFault

\* The hash of the file at p in state s, as hashlib computes it.
HashNow(s, p) == Sha256(s.files[p])

OnDiskTrackable(s, p) == s.files[p] # Absent /\ should_track_file(p)

\* C1: the set scan_for_changes returns holds exactly the trackable files on
\* disk that were absent from the in-memory cache or whose content hash
\* differs from the cached one; a trackable file whose hash equals its cached
\* hash is not in it.
C1_ChangedSetExact ==
    Ran("scan_for_changes") =>
        \A p \in Paths :
            p \in last.ret[1] <=>
                /\ OnDiskTrackable(last.pre, p)
                /\ \/ p \notin DOMAIN last.pre.file_hashes
                   \/ last.pre.file_hashes[p] # HashNow(last.pre, p)

\* A scan that met a modified cached file, a new file, and an unchanged one.
C1_Witness ==
    /\ Ran("scan_for_changes")
    /\ \E p \in last.ret[1] :
            p \in DOMAIN last.pre.file_hashes
    /\ \E p \in Paths \ last.ret[1] :
            /\ OnDiskTrackable(last.pre, p)
            /\ last.pre.file_hashes[p] = HashNow(last.pre, p)

\* C2: every cached path that is no longer a trackable file on disk is handed
\* to the caller of scan_for_changes in a deleted set, the second value
\* returned beside the changed set, and is removed from the in-memory cache.
C2_DeletedSetReturned ==
    Ran("scan_for_changes") =>
        \A p \in DOMAIN last.pre.file_hashes :
            ~OnDiskTrackable(last.pre, p) =>
                /\ p \notin DOMAIN file_hashes
                /\ Len(last.ret) >= 2
                /\ p \in last.ret[2]

\* C3: full_sync on a project with no metadata record, no index and no cache
\* (persisted or in memory) leaves exactly one record per trackable file, each
\* carrying that file's path, an index whose total_count is the number of
\* trackable files, and sync_status clean.
FreshProject(s) ==
    /\ s.meta = EmptyMap
    /\ s.index = NoDoc
    /\ s.cache = NoDoc
    /\ s.file_hashes = EmptyMap

C3_FullSyncFromScratch ==
    (Ran("full_sync") /\ FreshProject(last.pre)) =>
        /\ ~last.raised
        /\ DOMAIN meta = {MetaKey(p) : p \in {q \in Paths : OnDiskTrackable(Cur, q)}}
        /\ \A p \in Paths :
                OnDiskTrackable(Cur, p) =>
                    /\ meta[MetaKey(p)].kind = "doc"
                    /\ meta[MetaKey(p)].file_info.path = p
        /\ index.kind = "doc"
        /\ index.meta_files.total_count =
                Cardinality({q \in Paths : OnDiskTrackable(Cur, q)})
        /\ index.meta_files.sync_status = "clean"

\* A first full_sync of a project holding two trackable files and one that is
\* not tracked.
C3_Witness ==
    /\ Ran("full_sync")
    /\ FreshProject(last.pre)
    /\ Cardinality({q \in Paths : OnDiskTrackable(Cur, q)}) = 2
    /\ \E q \in Paths : files[q] # Absent /\ ~should_track_file(q)

\* C4: after a full sync, when one tracked file has been deleted and nothing
\* else changed, incremental_sync leaves the file out of the cache, deletes
\* its record, lowers total_count by 1 and ends with sync_status clean.
OnlyDeleted(s, p) ==
    /\ p \in DOMAIN s.file_hashes
    /\ s.files[p] = Absent
    /\ MetaKey(p) \in DOMAIN s.meta
    /\ s.index.kind = "doc"
    /\ s.index.meta_files.sync_status = "clean"
    /\ \A q \in Paths \ {p} :
            IF OnDiskTrackable(s, q)
            THEN q \in DOMAIN s.file_hashes /\ s.file_hashes[q] = HashNow(s, q)
            ELSE q \notin DOMAIN s.file_hashes

C4_DeletionSynced ==
    \A p \in Paths :
        (Ran("incremental_sync") /\ OnlyDeleted(last.pre, p)) =>
            /\ p \notin DOMAIN file_hashes
            /\ MetaKey(p) \notin DOMAIN meta
            /\ index.kind = "doc"
            /\ index.meta_files.total_count = last.pre.index.meta_files.total_count - 1
            /\ index.meta_files.sync_status = "clean"

\* The changed set the scan of an operation started in state s finds.
ChangedIn(s) == scan_for_changes(s).changed_files

\* The injected fault makes a step of the operation that ran last raise.
StepFailed ==
    \/ last.fault.step = "record" /\ last.fault.failing \cap ChangedIn(last.pre) # {}
    \/ last.fault.step = "orphan" /\ last.op = "full_sync"
    \/ last.fault.step = "index"
        /\ (last.op = "full_sync" \/ ChangedIn(last.pre) # {})

\* C5: when a step of full_sync or incremental_sync fails after the status
\* was set to syncing (a record rebuild, the orphan cleanup or the index
\* rebuild; nothing in the change scan raises), the operation raises and the
\* persisted sync_status is error; it never ends clean.
C5_FailedStepEndsInError ==
    (last.op \in {"full_sync", "incremental_sync"} /\ StepFailed) =>
        /\ last.raised
        /\ check_sync_status(Cur) = "error"

\* C6: when full_sync cannot create the metadata root, cannot write a record
\* or cannot write the index, the sync status is set to error and the
\* exception reaches the caller.
C6_StructuralFailureSurfaces ==
    (/\ last.op = "full_sync"
     /\ \/ last.fault.step = "init"
        \/ last.fault.step = "index"
        \/ last.fault.step = "record"
            /\ last.fault.failing \cap ChangedIn(last.pre) # {}) =>
        /\ last.raised
        /\ index.kind = "doc"
        /\ index.meta_files.sync_status = "error"

\* C7: when the record of a tracked file is corrupt after a completed sync,
\* full_sync raises nothing and rewrites it: afterwards the file has a valid
\* record carrying its path.
C7_CorruptRecordRewritten ==
    \A p \in Paths :
        (/\ Ran("full_sync")
         /\ OnDiskTrackable(last.pre, p)
         /\ MetaKey(p) \in DOMAIN last.pre.meta
         /\ last.pre.meta[MetaKey(p)].kind = "corrupt"
         /\ last.pre.index.kind = "doc"
         /\ last.pre.index.meta_files.sync_status = "clean") =>
            /\ ~last.raised
            /\ MetaKey(p) \in DOMAIN meta
            /\ meta[MetaKey(p)].kind = "doc"
            /\ meta[MetaKey(p)].file_info.path = p

\* C8: from every state in which the scan finds a non-empty changed set,
\* incremental_sync and full_sync end in the same persisted state: the same
\* records, the same index (buckets, total_count, sync_status) and the same
\* persisted cache.
C8_IncrementalEqualsFull ==
    ChangedIn(Cur) # {} =>
        LET f == full_sync(Cur, now + 1, NoFault).s
            i == incremental_sync(Cur, now + 1, NoFault).s
        IN  /\ f.meta = i.meta
            /\ f.index = i.index
            /\ f.cache = i.cache

\* C9: when the in-memory cache agrees with the tree (no trackable file was
\* added, modified or deleted since it was updated), incremental_sync rewrites
\* no record, leaves the index's file_categories, total_count and
\* generated_at and the persisted cache as they were, and leaves a readable
\* index with sync_status clean.
CacheAgrees(s) ==
    /\ DOMAIN s.file_hashes = {q \in Paths : OnDiskTrackable(s, q)}
    /\ \A q \in DOMAIN s.file_hashes : s.file_hashes[q] = HashNow(s, q)

C9_NoChangeNoRebuild ==
    (Ran("incremental_sync") /\ CacheAgrees(last.pre)) =>
        /\ ~last.raised
        /\ meta = last.pre.meta
        /\ cache = last.pre.cache
        /\ index.kind = last.pre.index.kind
        /\ index.kind = "doc" =>
            /\ index.file_categories = last.pre.index.file_categories
            /\ index.meta_files.total_count = last.pre.index.meta_files.total_count
            /\ index.generated_at = last.pre.index.generated_at
            /\ index.meta_files.sync_status = "clean"

\* An incremental_sync with nothing to do on a project synced before: the
\* index keeps its generated_at and gets a new last_updated.
C9_Witness ==
    /\ Ran("incremental_sync")
    /\ CacheAgrees(last.pre)
    /\ last.pre.file_hashes # EmptyMap
    /\ index.kind = "doc"
    /\ index.generated_at < now
    /\ index.meta_files.last_updated = now
    /\ index.meta_files.total_count > 0

\* C10: force_file_sync of an existing tracked file rewrites its record with
\* a new last_updated also when the cached hash equals the current one, and
\* afterwards the in-memory and the persisted cache hold the file's current
\* hash and the index has been rebuilt.
C10_ForceSyncRewrites ==
    (/\ Ran("force_file_sync")
     /\ OnDiskTrackable(last.pre, last.arg)) =>
        LET p == last.arg IN
        /\ ~last.raised
        /\ MetaKey(p) \in DOMAIN meta
        /\ meta[MetaKey(p)].kind = "doc"
        /\ meta[MetaKey(p)].last_updated = now
        /\ file_hashes[p] = HashNow(Cur, p)
        /\ cache.kind = "doc"
        /\ p \in DOMAIN cache.file_hashes
        /\ cache.file_hashes[p] = HashNow(Cur, p)
        /\ index.kind = "doc"
        /\ index.generated_at = now

\* A force_file_sync of a file whose cached hash was current and whose record
\* was written by an earlier operation.
C10_Witness ==
    /\ Ran("force_file_sync")
    /\ OnDiskTrackable(last.pre, last.arg)
    /\ last.arg \in DOMAIN last.pre.file_hashes
    /\ last.pre.file_hashes[last.arg] = HashNow(last.pre, last.arg)
    /\ MetaKey(last.arg) \in DOMAIN last.pre.meta
    /\ last.pre.meta[MetaKey(last.arg)].kind = "doc"
    /\ last.pre.meta[MetaKey(last.arg)].last_updated < now

\* ---- the index generate_index has just written
Rebuilt == last.op = "generate_index" /\ index.kind = "doc"

BucketOrder == <<"core_modules", "feature_modules", "config_files", "test_files">>

\* The four file_categories path lists of an index, one after the other.
ListedPaths(idx) ==
    idx.file_categories[BucketOrder[1]].files
    \o idx.file_categories[BucketOrder[2]].files
    \o idx.file_categories[BucketOrder[3]].files
    \o idx.file_categories[BucketOrder[4]].files

NoDuplicates(seq) == \A i, j \in 1..Len(seq) : seq[i] = seq[j] => i = j

\* The storage keys whose document parses, and the paths their records carry.
ParseableKeys(s) == {k \in DOMAIN s.meta : s.meta[k].kind = "doc"}
ParseablePaths(s) == {s.meta[k].file_info.path : k \in ParseableKeys(s)}

\* The source paths of all the documents persisted under the metadata root.
PersistedPaths(s) == {StripYml(k) : k \in DOMAIN s.meta}

\* C11 as stated: after every index rebuild the four path lists together hold
\* exactly the paths of the persisted metadata records, each path once.
\* Violated when a persisted record does not parse: its path is not listed.
C11_PartitionOfPersisted ==
    Rebuilt =>
        /\ SeqToSet(ListedPaths(index)) = PersistedPaths(Cur)
        /\ NoDuplicates(ListedPaths(index))

\* C11 amended: after every index rebuild the four path lists together hold
\* exactly the paths of the persisted metadata records that parse, and each
\* such path stands in exactly one bucket exactly once.
C11_PartitionOfParseable ==
    Rebuilt =>
        /\ SeqToSet(ListedPaths(index)) = ParseablePaths(Cur)
        /\ NoDuplicates(ListedPaths(index))

\* An index rebuilt over a directory where a core record of type test, a
\* record that does not parse and a third record stand side by side.
C11_Witness ==
    /\ Rebuilt
    /\ Cardinality(ParseableKeys(Cur)) = 2
    /\ Cardinality(DOMAIN meta) = 3
    /\ \E k \in ParseableKeys(Cur) :
          meta[k].ai_summary.importance = "core" /\ meta[k].file_info.type = "test"

\* C12 as stated: in every index generate_index writes, total_count is the
\* number of metadata records persisted under the metadata root, and the sum
\* of the four bucket list lengths.  Violated when a persisted record does
\* not parse: it is persisted and not counted.
C12_CountOfPersisted ==
    Rebuilt =>
        /\ index.meta_files.total_count = Cardinality(DOMAIN meta)
        /\ index.meta_files.total_count = Len(ListedPaths(index))

\* C12 amended: in every index generate_index writes, total_count is the
\* number of persisted metadata records that parse at the moment of
\* aggregation, and the sum of the four bucket list lengths.
C12_CountOfParseable ==
    Rebuilt =>
        /\ index.meta_files.total_count = Cardinality(ParseableKeys(Cur))
        /\ index.meta_files.total_count = Len(ListedPaths(index))

\* An index written over two records that parse and one that does not.
C12_Witness ==
    /\ Rebuilt
    /\ index.meta_files.total_count = 2
    /\ \E k \in DOMAIN meta : meta[k].kind = "corrupt"

\* The path list of bucket b of the index, as a set, and the tokens of the
\* records those paths belong to.
InBucket(b) == SeqToSet(index.file_categories[b].files)

TokensOfListed(b) ==
    LET fs == index.file_categories[b].files
    IN SumSeq([i \in 1..Len(fs) |-> meta[MetaKey(fs[i])].file_info.estimated_tokens])

\* C13: generate_index puts a record of importance core in core_modules
\* whatever its type; a record that is not core goes to test_files when its
\* type is test, else to config_files when its type is config, else to
\* feature_modules; and the estimated_tokens of each bucket is the sum of the
\* estimated_tokens of the records listed in it.
C13_BucketPrecedence ==
    Rebuilt =>
        /\ \A k \in ParseableKeys(Cur) :
              LET m == meta[k]
                  p == m.file_info.path
              IN  /\ m.ai_summary.importance = "core" => p \in InBucket("core_modules")
                  /\ m.ai_summary.importance # "core" /\ m.file_info.type = "test"
                        => p \in InBucket("test_files")
                  /\ m.ai_summary.importance # "core" /\ m.file_info.type = "config"
                        => p \in InBucket("config_files")
                  /\ m.ai_summary.importance # "core"
                     /\ m.file_info.type \notin {"test", "config"}
                        => p \in InBucket("feature_modules")
        /\ \A b \in Buckets :
              index.file_categories[b].estimated_tokens = TokensOfListed(b)

\* An index over a core record of type test, a core record of type config and
\* a record of type config that is not core: two paths in core_modules with
\* their tokens added up, one in config_files.
C13_Witness ==
    /\ Rebuilt
    /\ \E k1, k2, k3 \in ParseableKeys(Cur) :
          /\ meta[k1].ai_summary.importance = "core" /\ meta[k1].file_info.type = "test"
          /\ meta[k2].ai_summary.importance = "core" /\ meta[k2].file_info.type = "config"
          /\ meta[k3].ai_summary.importance = "test" /\ meta[k3].file_info.type = "config"
          /\ InBucket("core_modules") = {StripYml(k1), StripYml(k2)}
          /\ InBucket("config_files") = {StripYml(k3)}
          /\ index.file_categories["core_modules"].estimated_tokens
                = TokensFor(k1) + TokensFor(k2)

\* C14: clean_orphaned_meta deletes a metadata record exactly when the source
\* path its storage key stands for (the key without the .yml extension) does
\* not exist; every other record is left as it was, no record is added, and
\* no source file is touched.
C14_OrphansOnly ==
    last.op = "clean" =>
        /\ \A k \in DOMAIN last.pre.meta :
              k \notin DOMAIN meta <=> ~Exists(last.pre, StripYml(k))
        /\ \A k \in DOMAIN meta :
              k \in DOMAIN last.pre.meta /\ meta[k] = last.pre.meta[k]
        /\ files = last.pre.files

\* A clean that removed the record of a deleted file and kept the record, one
\* that no longer parses, of a file still on disk.
C14_Witness ==
    /\ last.op = "clean"
    /\ \E k \in DOMAIN last.pre.meta : k \notin DOMAIN meta
    /\ \E k \in DOMAIN meta : meta[k].kind = "corrupt" /\ Exists(Cur, StripYml(k))

\* C19: when a persisted metadata record does not parse and its source file
\* is on disk, a scan-all (scan_and_generate_meta) ends without an error and
\* leaves under that key a record that parses, built at the time of the scan,
\* whose file_info.path is the relative path of the source file.
C19_ScanHealsCorruptRecord ==
    last.op = "scan" =>
        /\ ~last.raised
        /\ \A k \in DOMAIN last.pre.meta :
              last.pre.meta[k].kind = "corrupt" /\ Exists(last.pre, StripYml(k))
              => /\ k \in DOMAIN meta
                 /\ meta[k].kind = "doc"
                 /\ meta[k].file_info.path = StripYml(k)
                 /\ meta[k].last_updated = now

\* A scan-all that started with a record that did not parse, its source file
\* on disk.
C19_Witness ==
    /\ last.op = "scan"
    /\ \E k \in DOMAIN last.pre.meta :
          /\ last.pre.meta[k].kind = "corrupt"
          /\ Exists(last.pre, StripYml(k))
          /\ meta[k].kind = "doc"

\* C20: when some persisted metadata records do not parse, generate_index
\* still writes the index: no path of an unparseable record is listed, the
\* path of every record that parses is listed, and total_count is the number
\* of records that parse.
C20_UnparseableSkipped ==
    (last.op = "generate_index"
     /\ \E k \in DOMAIN last.pre.meta : last.pre.meta[k].kind = "corrupt")
    => /\ index.kind = "doc"
       /\ index.generated_at = now
       /\ \A k \in DOMAIN last.pre.meta :
             StripYml(k) \in SeqToSet(ListedPaths(index))
             <=> last.pre.meta[k].kind = "doc"
       /\ index.meta_files.total_count = Cardinality(ParseableKeys(last.pre))

\* A first index built over a directory where the record of main.py does not
\* parse and the two other records do.
C20_Witness ==
    /\ last.op = "generate_index"
    /\ last.pre.index.kind = "absent"
    /\ MetaKey(P_main) \in DOMAIN meta /\ meta[MetaKey(P_main)].kind = "corrupt"
    /\ Cardinality(ParseableKeys(Cur)) = 2
    /\ Len(ListedPaths(index)) = 2

\* C15: in watch mode, unless a cancellation stops the loop, every call of
\* incremental_sync is followed by a sleep and every sleep by the next call
\* of incremental_sync; a call that raised an exception leads to the sleep
\* of the except branch, and from there to the next call as well.
C15_WatchKeepsSyncing ==
    /\ [](last.op = "watch_sync" /\ last.raised /\ last.fault.step # "interrupt"
            => pc = "sleep_err")
    /\ (pc = "sync") ~> (pc \in {"sleep", "sleep_err", "stopped"})
    /\ (pc = "sleep") ~> (pc \in {"sync", "stopped"})
    /\ (pc = "sleep_err") ~> (pc \in {"sync", "stopped"})

\* The loop back at the call of incremental_sync after the sleep that
\* followed an iteration whose incremental_sync raised.
C15_Witness ==
    /\ pc = "sync"
    /\ last.op = "watch_sleep"
    /\ last.arg = "sleep_err"
    /\ last.ret = <<FALSE>>
    /\ check_sync_status(Cur) = "error"

\* C16: when the cancellation signal (KeyboardInterrupt) arrives while the
\* watch loop sleeps or while incremental_sync runs, the loop has ended when
\* the step is over: watch_mode has returned and no incremental_sync
\* follows.  Violated when the signal arrives inside estimate_tokens, whose
\* bare except takes it: incremental_sync goes on and the loop sleeps.
C16_CancelStopsLoop ==
    /\ (last.op = "watch_sync"
        /\ last.fault.step \in {"interrupt", "interrupt_tokens"}) => pc = "stopped"
    /\ (last.op = "watch_sleep" /\ last.ret = <<TRUE>>) => pc = "stopped"

\* The states after each index write of the operation that ran last.
TrailOf ==
    IF last.op = "full_sync" THEN full_sync(last.pre, now, last.fault).trail
    ELSE IF last.op \in {"incremental_sync", "watch_sync"}
    THEN incremental_sync(last.pre, now, last.fault).trail
    ELSE IF last.op = "force_file_sync"
    THEN force_file_sync(last.pre, last.arg, now, last.fault).trail
    ELSE IF last.op = "init" THEN main_init(last.pre, now).trail
    ELSE IF last.op = "scan" THEN main_scan(last.pre, now, last.fault).trail
    ELSE IF last.op = "update" THEN main_update(last.pre, last.arg.path, last.arg.form, now).trail
    ELSE IF last.op = "clean" THEN main_clean(last.pre, now).trail
    ELSE IF last.op = "generate_index" THEN <<Cur>>
    ELSE <<>>

\* The changes of the persisted sync_status the last operation made, as
\* pairs <<status before the write, status after it>>.
StatusChanges ==
    LET tr == <<last.pre>> \o TrailOf
    IN {e \in {<<check_sync_status(tr[i]), check_sync_status(tr[i + 1])>> :
                    i \in 1..(Len(tr) - 1)} : e[1] # e[2]}

StatedEdges ==
    {<<"not_initialized", "clean">>, <<"clean", "syncing">>,
     <<"syncing", "clean">>, <<"syncing", "error">>}

\* C17 as stated: every change of the persisted sync_status an operation
\* makes is not_initialized -> clean, clean -> syncing, syncing -> clean or
\* syncing -> error.  Violated by the sync that follows a failed one: it
\* moves the status from error to syncing.
C17_StatedMachine ==
    last.op # "env" => StatusChanges \subseteq StatedEdges

\* C17 amended: every change of the persisted sync_status an operation makes
\* is an edge of the stated machine or leaves error: error -> syncing (the
\* next full_sync or incremental_sync) or error -> clean (an index rebuild
\* outside a sync).
C17_MachineWithRecovery ==
    last.op # "env" =>
        /\ StatusChanges \subseteq
              StatedEdges \cup {<<"error", "syncing">>, <<"error", "clean">>}
        /\ TrailOf # <<>> => check_sync_status(Cur) = check_sync_status(TrailOf[Len(TrailOf)])

\* A sync that failed from syncing to error, after an earlier operation had
\* left the status in error.
C17_Witness ==
    /\ last.op \in {"full_sync", "incremental_sync"}
    /\ check_sync_status(last.pre) = "error"
    /\ StatusChanges = {<<"error", "syncing">>, <<"syncing", "error">>}

StatedStatuses == {"not_initialized", "clean", "syncing", "error"}

\* C18 as stated: in every reachable state check_sync_status reports one of
\* not_initialized, clean, syncing, error, and not_initialized exactly when
\* there is no index document.  Violated on an index file a crash left
\* empty: the status reported is unknown.
C18_StatusInStatedSet ==
    /\ check_sync_status(Cur) \in StatedStatuses
    /\ check_sync_status(Cur) = "not_initialized" <=> index.kind = "absent"

\* C18 amended: in every reachable state check_sync_status reports one of
\* not_initialized, clean, syncing, error, unknown; it is not_initialized
\* exactly when there is no index document, and unknown only when the index
\* document holds no sync_status.
C18_StatusOrUnknown ==
    /\ check_sync_status(Cur) \in StatedStatuses \cup {"unknown"}
    /\ check_sync_status(Cur) = "not_initialized" <=> index.kind = "absent"
    /\ check_sync_status(Cur) = "unknown" => index.kind = "empty"
    /\ last.op = "check_sync_status" => last.ret = <<check_sync_status(Cur)>>

\* The status command run, after the last operation the clock allows, on an
\* index file that a crash left empty.
C18_Witness ==
    /\ last.op = "check_sync_status"
    /\ last.ret = <<"unknown">>
    /\ index.kind = "empty"
    /\ now = MaxClock

\* The storage keys whose record the last operation has written anew over a
\* record that parsed.
Regenerated ==
    {k \in DOMAIN meta \cap DOMAIN last.pre.meta :
        /\ last.pre.meta[k].kind = "doc"
        /\ meta[k].kind = "doc"
        /\ meta[k].last_updated = now}

\* C21: when an operation regenerates the record of a file that already had
\* one, the new record keeps the generated_at of the old record and carries
\* a last_updated the old record did not have.  Violated by every
\* regeneration: generate_file_meta stamps generated_at with the current
\* time as well.
C21_GeneratedAtKept ==
    last.op \in {"update", "scan", "full_sync", "incremental_sync", "force_file_sync"}
    => \A k \in Regenerated :
          /\ meta[k].generated_at = last.pre.meta[k].generated_at
          /\ meta[k].last_updated # last.pre.meta[k].last_updated

\* The value contract_file has to have in a record of p built on the tree w.
ContractRef(w, p) == IF Exists(w, ContractPath(p)) THEN <<ContractPath(p)>> ELSE <<>>

\* The storage keys whose record the last operation has written.
BuiltNow == {k \in DOMAIN meta : meta[k].kind = "doc" /\ meta[k].last_updated = now}

\* C22: every record an operation builds names the sibling contract document
\* exactly when that document is on disk at the time of the build, and after
\* update-one is run for a trackable source file on disk the stored record
\* of the file names the contract exactly when the contract is on disk.
\* Violated by update-one given the path relative to the project root:
\* generate_file_meta raises before anything is written.
C22_ContractReflected ==
    (last.op \in {"scan", "update"} /\ last.fault = NoFault) =>
        /\ \A k \in BuiltNow : meta[k].contract_file = ContractRef(Cur, StripYml(k))
        /\ (last.op = "update" /\ OnDiskTrackable(last.pre, last.arg.path)) =>
              /\ MetaKey(last.arg.path) \in DOMAIN meta
              /\ meta[MetaKey(last.arg.path)].kind = "doc"
              /\ meta[MetaKey(last.arg.path)].contract_file = ContractRef(Cur, last.arg.path)

\* C23: when a listed file is removed while scan-all runs, the scan does not
\* end with an exception, every other trackable file gets its record built,
\* and a record built for the removed file has 0 tokens and no imports.
\* Violated when the file is removed before generate_file_meta reads its
\* size: the stat() there is outside every try block.
C23_ScanSurvivesVanish ==
    (last.op = "scan" /\ last.fault.step \in {"vanish", "vanish_late"}) =>
        /\ ~last.raised
        /\ \A p \in Trackable(last.pre) \ last.fault.failing : MetaKey(p) \in BuiltNow
        /\ \A p \in last.fault.failing :
              MetaKey(p) \in BuiltNow =>
                  /\ meta[MetaKey(p)].file_info.estimated_tokens = 0
                  /\ meta[MetaKey(p)].imports = <<>>

\* The parts of the classifier's rules.
HiddenName(p) == p.name[1] = "."
SegmentSkipped(p) == AnyPartIn(p, skip_dirs)
ListedName(p) == p.name \in important_files
KnownExtension(p) == Suffix(p) \in DOMAIN file_types
TestMarked(p) == ContainsTest(LowerName(p.name))
ConfigNames ==
    {<<"config", ".py">>, <<"settings", ".py">>, <<"package", ".json">>,
     <<"requirements", ".txt">>}
EntryPointNames ==
    {<<"main", ".py">>, <<"index", ".js">>, <<"app", ".py">>, <<"__init__", ".py">>}

C25_TypeRuleOrder ==
    last.op = "determine_file_type" =>
        LET p == last.arg
            isTest == TestMarked(p) \/ ParentName(p) = "tests"
            isConfig == LowerName(p.name) \in ConfigNames
            isSource == Suffix(p) \in {".py", ".js", ".ts", ".tsx", ".jsx"}
        IN
        /\ isTest => last.ret = "test"
        /\ (~isTest /\ isConfig) => last.ret = "config"
        /\ (~isTest /\ ~isConfig /\ isSource) => last.ret = "module"
        /\ (~isTest /\ ~isConfig /\ ~isSource /\ Suffix(p) = ".md") => last.ret = "doc"
        /\ (~isTest /\ ~isConfig /\ ~isSource /\ Suffix(p) # ".md") => last.ret = "script"

\* A configuration name directly under a tests directory has got type test.
C25_Witness ==
    /\ last.op = "determine_file_type"
    /\ LowerName(last.arg.name) \in ConfigNames
    /\ ~TestMarked(last.arg)
    /\ ParentName(last.arg) = "tests"
    /\ last.ret = "test"

\* C26: determine_importance answers core for an entry point name, otherwise
\* test for a name with the test marker, otherwise core for a configuration
\* name (requirements.txt is not one here), otherwise feature; the answer is
\* the one the bare file name gets, so an entry point in a tests directory
\* has type test and importance core.
C26_ImportanceByName ==
    last.op = "determine_importance" =>
        LET p == last.arg
            isEntry == LowerName(p.name) \in EntryPointNames
            isConfig == LowerName(p.name) \in ConfigNames \ {<<"requirements", ".txt">>}
        IN
        /\ isEntry => last.ret = "core"
        /\ (~isEntry /\ TestMarked(p)) => last.ret = "test"
        /\ (~isEntry /\ ~TestMarked(p) /\ isConfig) => last.ret = "core"
        /\ (~isEntry /\ ~TestMarked(p) /\ ~isConfig) => last.ret = "feature"
        /\ last.ret = determine_importance([dirs |-> <<>>, name |-> p.name])
        /\ (isEntry /\ ParentName(p) = "tests") =>
              (determine_file_type(p) = "test" /\ last.ret = "core")

\* An entry point name directly under a tests directory has got importance
\* core.
C26_Witness ==
    /\ last.op = "determine_importance"
    /\ LowerName(last.arg.name) \in EntryPointNames
    /\ ParentName(last.arg) = "tests"
    /\ determine_file_type(last.arg) = "test"
    /\ last.ret = "core"

\* C27: estimate_tokens returns a natural number without raising, 0 for a
\* file that cannot be stat-ed, and for a file on disk at least what it
\* returns for any strictly smaller file of the same language.
C27_TokensMonotone ==
    last.op = "estimate_tokens" =>
        LET p == last.arg IN
        /\ ~last.raised
        /\ last.ret \in Nat
        /\ ~Exists(Cur, p) => last.ret = 0
        /\ \A q \in DOMAIN files :
              (/\ Exists(Cur, p)
               /\ Exists(Cur, q)
               /\ LanguageOf(p) = LanguageOf(q)
               /\ SizeBytes(files[p]) > SizeBytes(files[q])) =>
                  last.ret >= estimate_tokens(Cur, q)

\* The estimate of the larger of two files of one language has been taken,
\* and the smaller one is not empty.
C27_Witness ==
    /\ last.op = "estimate_tokens"
    /\ Exists(Cur, last.arg)
    /\ \E q \in DOMAIN files :
          /\ Exists(Cur, q)
          /\ LanguageOf(q) = LanguageOf(last.arg)
          /\ SizeBytes(files[last.arg]) > SizeBytes(files[q])
          /\ estimate_tokens(Cur, q) > 0
          /\ last.ret > estimate_tokens(Cur, q)

\* C28: after scan-all has scanned and indexed a project that holds
\* config.py, requirements.txt and config.yml, the config_files bucket of
\* the index lists at least one file and requirements.txt has a record.
\* Violated: requirements.txt is not tracked, config.py goes to core_modules
\* and config.yml to feature_modules.
C28_ConfigBucketFilled ==
    (/\ last.op = "scan"
     /\ last.fault = NoFault
     /\ DOMAIN files = {P_config, P_requirements, P_config_yml}
     /\ \A p \in DOMAIN files : Exists(last.pre, p)) =>
        /\ index.kind = "doc"
        /\ index.file_categories["config_files"].files # <<>>
        /\ MetaKey(P_requirements) \in DOMAIN meta

\* C29: an engine constructed on a cache document that does not parse comes
\* up without raising and with an empty hash cache, and a scan_for_changes
\* that is its next operation returns every trackable file on disk.
C29_CorruptCacheStartsEmpty ==
    [][/\ (last'.op = "__init__" /\ cache.kind = "corrupt") =>
            (~last'.raised /\ file_hashes' = EmptyMap)
       /\ (/\ last.op = "__init__"
           /\ last.pre.cache.kind = "corrupt"
           /\ last'.op = "scan_for_changes") =>
            last'.ret = <<Trackable(Cur)>>]_vars

\* An engine constructed on a damaged cache has scanned a tree that holds a
\* trackable file whose hash the lost cache had, and has returned it.
C29_Witness ==
    /\ last.op = "scan_for_changes"
    /\ last.pre.cache.kind = "corrupt"
    /\ last.pre.file_hashes = EmptyMap
    /\ last.ret # <<{}>>
    /\ \E p \in last.ret[1] :
          /\ MetaKey(p) \in DOMAIN meta
          /\ meta[MetaKey(p)].kind = "doc"
          /\ meta[MetaKey(p)].file_info.size_bytes = SizeBytes(files[p])

\* TRUE when the index of state s tells the status clean.
TellsClean(s) ==
    /\ s.index.kind \in {"doc", "partial"}
    /\ s.index.meta_files.sync_status = "clean"

\* C30: full_sync persists the cache before it sets the status clean: in
\* none of the states a full_sync that succeeds passes through after its
\* syncing mark does the index tell clean while the cache on disk is not
\* yet the one this sync writes.  Violated: generate_index and
\* update_sync_status("clean") both write clean before save_cache runs.
C30_CleanAfterCachePersisted ==
    (Ran("full_sync") /\ ~last.raised) =>
        \A i \in 2..Len(TrailOf) : TellsClean(TrailOf[i]) => TrailOf[i].cache = cache

\* C31: scan_for_changes leaves the cache document, the metadata records,
\* the index and the source files as they were, and an operation of the
\* engine leaves a cache document that differs from the one it found only
\* by writing it from its in-memory cache, as save_cache does.
C31_ScanTouchesMemoryOnly ==
    /\ Ran("scan_for_changes") =>
          /\ cache = last.pre.cache
          /\ meta = last.pre.meta
          /\ index = last.pre.index
          /\ files = last.pre.files
          /\ axiom_dir = last.pre.axiom_dir
    /\ (last.op # "env" /\ cache # last.pre.cache) =>
          /\ last.op \in {"full_sync", "incremental_sync", "force_file_sync"}
          /\ cache = [kind |-> "doc",
                      file_hashes |-> file_hashes,
                      last_sync_time |-> last_sync_time,
                      generated_at |-> now]

\* A scan has changed the in-memory cache while a cache document of an
\* earlier sync is on disk, which now holds other hashes than the memory.
C31_Witness ==
    /\ Ran("scan_for_changes")
    /\ file_hashes # last.pre.file_hashes
    /\ cache.kind = "doc"
    /\ cache.file_hashes # file_hashes

\* The storage keys of state s whose source file is not in the tree.
Orphans(s) == {k \in DOMAIN s.meta : ~Exists(s, StripYml(k))}

\* TRUE when hashes maps exactly the trackable files on disk of state s,
\* each to the hash of its content.
HashesOfTree(hashes, s) ==
    /\ DOMAIN hashes = Trackable(s)
    /\ \A p \in DOMAIN hashes : hashes[p] = Sha256(s.files[p])

RecordBuiltFrom(s, p, h) ==
    /\ MetaKey(p) \in DOMAIN s.meta
    /\ s.meta[MetaKey(p)].kind = "doc"
    /\ h # EmptyHash
    /\ s.meta[MetaKey(p)].file_info.size_bytes = SizeBytes(h[2])
    /\ s.meta[MetaKey(p)].imports = (IF Suffix(p) = ".py" THEN ImportsOf(h[2]) ELSE <<>>)

\* C33: when full_sync or incremental_sync has returned and the status is
\* clean, every path of the cache document has a parseable record built
\* from the content whose hash the document holds for it.  Violated: a sync
\* rebuilds only the files whose hash changed, so a record damaged on disk
\* stays unparseable under a clean status, and a record whose rebuild failed
\* stays old while the new hash is saved.
C33_CleanMeansRecordsCurrent ==
    (/\ last.op \in {"full_sync", "incremental_sync"}
     /\ ~last.raised
     /\ TellsClean(Cur)
     /\ cache.kind = "doc") =>
        \A p \in DOMAIN cache.file_hashes : RecordBuiltFrom(Cur, p, cache.file_hashes[p])

\* C34: when scan_for_changes has returned, the in-memory cache maps exactly
\* the trackable files on disk to the hashes of their contents, and a
\* scan_for_changes that is the very next step, the tree being as it was,
\* returns the empty set and leaves the in-memory cache as it is.
C34_ScanIsIdempotent ==
    [][/\ last'.op = "scan_for_changes" => HashesOfTree(file_hashes', [files |-> files'])
       /\ (last.op = "scan_for_changes" /\ last'.op = "scan_for_changes") =>
            (last'.ret = <<{}>> /\ file_hashes' = file_hashes)]_vars

\* A scan has returned the empty set on an in-memory cache that holds
\* hashes, in a project where no sync has written a cache document or a
\* record: the hashes are those of a scan before it.
C34_Witness ==
    /\ last.op = "scan_for_changes"
    /\ last.ret = <<{}>>
    /\ file_hashes # EmptyMap
    /\ last.pre.file_hashes = file_hashes
    /\ cache = NoDoc
    /\ meta = EmptyMap

\* The set scan_for_changes returns to an engine newly constructed on the
\* persisted state s.
FreshScan(s) ==
    scan_for_changes(load_cache([s EXCEPT !.file_hashes = EmptyMap])).returned

\* C35: when full_sync or incremental_sync has ended by raising, the cache
\* document is the one the operation found, and an engine newly constructed
\* on it gets from scan_for_changes the same set it would have got before
\* the operation.
C35_RaisedSyncKeepsCache ==
    (last.op \in {"full_sync", "incremental_sync"} /\ last.raised) =>
        /\ cache = last.pre.cache
        /\ FreshScan(Cur) = FreshScan(last.pre)

\* A sync of changed files has raised at the index rebuild, with a cache
\* document of an earlier sync on disk that does not know the change.
C35_Witness ==
    /\ last.op \in {"full_sync", "incremental_sync"}
    /\ last.raised
    /\ last.fault.step = "index"
    /\ cache.kind = "doc"
    /\ FreshScan(Cur) # <<{}>>
    /\ file_hashes # cache.file_hashes

\* TRUE when the incremental_sync told by last found p changed and then
\* failed, as a whole or at the rebuild of the record of p.
DetectedThenFailed(p) ==
    /\ last.op = "incremental_sync"
    /\ p \in scan_for_changes(last.pre).returned[1]
    /\ \/ last.raised
       \/ (last.fault.step = "record" /\ p \in last.fault.failing)

\* C36: when an incremental_sync has found a file changed and has then
\* failed, or has failed to rebuild the record of that file, the
\* incremental_sync the same engine runs next finds the file changed again.
\* Violated: scan_for_changes stores the new hash in the in-memory cache at
\* the moment it finds the change, so the next scan finds nothing.
C36_FailedChangeSeenAgain ==
    [][\A p \in DOMAIN files :
          (DetectedThenFailed(p) /\ last'.op = "incremental_sync") =>
              p \in scan_for_changes(last'.pre).returned[1]]_vars

\* C37: every key of the in-memory cache and of the cache document is a
\* path should_track_file accepts, and force_file_sync of a file on disk
\* that should_track_file rejects adds no cache entry and writes no record.
\* Violated: force_file_sync stores the hash of whatever file it is given
\* before anything looks at the tracking predicate, and saves the cache.
C37_CacheKeysTracked ==
    /\ \A p \in DOMAIN file_hashes : should_track_file(p)
    /\ cache.kind = "doc" => \A p \in DOMAIN cache.file_hashes : should_track_file(p)
    /\ (/\ last.op = "force_file_sync"
        /\ Exists(last.pre, last.arg)
        /\ ~should_track_file(last.arg)) =>
            /\ DOMAIN file_hashes = DOMAIN last.pre.file_hashes
            /\ meta = last.pre.meta

TellsSyncing(s) ==
    /\ s.index.kind \in {"doc", "partial"}
    /\ s.index.meta_files.sync_status = "syncing"

\* C38: once a full_sync or an incremental_sync has returned, raised or been
\* cut short by the cancellation of the watch loop, the index does not tell
\* syncing.  Violated: the except branch that writes error takes Exception
\* only, and the interrupt of the watch loop is not one.
C38_SyncingOnlyWhileRunning ==
    last.op \in {"full_sync", "incremental_sync", "watch_sync"} => ~TellsSyncing(Cur)

\* C39: after every full_sync, incremental_sync or force_file_sync that
\* returns normally, the paths the index lists are the paths of the records
\* persisted at that moment, and total_count is their number.  Violated by an
\* incremental_sync that finds nothing changed after a sync whose index
\* rebuild failed: it returns with the index that was there before the
\* records were written.
C39_IndexListsPersisted ==
    (/\ last.op \in {"full_sync", "incremental_sync", "force_file_sync"}
     /\ ~last.raised
     /\ index.kind = "doc") =>
        /\ SeqToSet(ListedPaths(index)) = PersistedPaths(Cur)
        /\ index.meta_files.total_count = Cardinality(DOMAIN meta)

====
